---- MODULE Spec2Model ----
(***************************************************************************)
(* camera.js: the per-frame wrist-in-corner decision of                    *)
(* poseDetectionFrame, the light-state store lightStates and the           *)
(* edge-triggered publisher setLightState.                                 *)
(*                                                                         *)
(* Scores are counted in tenths (0.6 is 6, 0.1 is 1); positions are whole  *)
(* pixels.  Two specifications share the variables:                        *)
(*   Spec       the frame loop of detectPoseInRealTime;                    *)
(*   SpecCalls  arbitrary sequences of setLightState calls, with the       *)
(*              network between mqttClient.publish and the broker.         *)
(***************************************************************************)
EXTENDS Integers, Sequences, FiniteSets, TLC

VARIABLES
  lightStates,    \* the object lightStates: property name -> value
  pendingFrames,  \* callbacks handed to requestAnimationFrame, not yet run
  inFlight,       \* executions of poseDetectionFrame begun and not ended
  frame,          \* where the latest execution stands
  poses,          \* the local variable poses of the latest execution
  start,          \* history: lightStates when the latest frame resumed / call began
  calls,          \* history: the setLightState calls of the latest frame / call
  published,      \* history: the mqttClient.publish calls of the latest frame / call
  completedFrames,\* history: frames completed so far, counted up to MaxCounted
  scene,          \* environment: whether the camera sees a held situation, and which
  brokerStates,   \* environment (SpecCalls): the state the broker holds per light
  delivery        \* environment (SpecCalls): fate of the latest call's publish

vars == <<lightStates, pendingFrames, inFlight, frame, poses, start, calls,
          published, completedFrames, scene, brokerStates, delivery>>

-----------------------------------------------------------------------------
(* Program constants *)

videoWidth == 600
videoHeight == 500

LEFT_LIGHT_ID == "0x00158d0002d758f7"
RIGHT_LIGHT_ID == "0x00158d0002d71d98"
Lights == {LEFT_LIGHT_ID, RIGHT_LIGHT_ID}

\* guiState.multiPoseDetection, scores in tenths
maxPoseDetections == 2
minPoseConfidence == 6
minPartConfidence == 1

\* history counter cap: completedFrames stops counting here
MaxCounted == 2

Undefined == "undefined"

-----------------------------------------------------------------------------
(* The light-state store: a JavaScript object *)

\* const lightStates = { LEFT_LIGHT_ID: undefined, RIGHT_LIGHT_ID: undefined }:
\* the two property names are the identifiers' names, not the light ids
InitialLightStates ==
  [k \in {"LEFT_LIGHT_ID", "RIGHT_LIGHT_ID"} |-> Undefined]

\* obj[key]: a property that is absent reads as undefined
Get(obj, key) == IF key \in DOMAIN obj THEN obj[key] ELSE Undefined

\* obj[key] = value
Put(obj, key, value) ==
  [k \in (DOMAIN obj) \cup {key} |-> IF k = key THEN value ELSE obj[k]]

\* `zigbee2mqtt/${id}/set`
Topic(id) == "zigbee2mqtt/" \o id \o "/set"

\* JSON.stringify({state: state, transition: 0})
JSONstringify(state) == "{\"state\":\"" \o state \o "\",\"transition\":0}"

\* mqttClient.publish(topic, payload): fire and forget
Publish(log, topic, payload) ==
  Append(log, [topic |-> topic, payload |-> payload])

\* m is the memory a run of code works on:
\*   lightStates, published (publish calls so far), calls (history), threw
Memory(ls) ==
  [lightStates |-> ls, published |-> <<>>, calls |-> <<>>, threw |-> FALSE]

Called(m, id, state) ==
  [m EXCEPT !.calls = Append(@, [id |-> id, state |-> state])]

\* faulty variant: level-triggered, publishes at every call
SetLightStateAlways(m, id, state) ==
  [Called(m, id, state) EXCEPT
     !.lightStates = Put(@, id, state),
     !.published = Publish(@, Topic(id), JSONstringify(state))]

\* faulty variant: publishes on a difference but never stores the new state
SetLightStateNoStore(m, id, state) ==
  IF Get(m.lightStates, id) # state
  THEN [Called(m, id, state) EXCEPT
          !.published = Publish(@, Topic(id), JSONstringify(state))]
  ELSE Called(m, id, state)

\* faulty variant: one topic for both lights
SetLightStateLeftTopic(m, id, state) ==
  IF Get(m.lightStates, id) # state
  THEN [Called(m, id, state) EXCEPT
          !.lightStates = Put(@, id, state),
          !.published = Publish(@, Topic(LEFT_LIGHT_ID), JSONstringify(state))]
  ELSE Called(m, id, state)

\* function setLightState(id, state)
SetLightState(m, id, state) ==
  IF Get(m.lightStates, id) # state
  THEN [Called(m, id, state) EXCEPT
          !.lightStates = Put(@, id, state),
          !.published = Publish(@, Topic(id), JSONstringify(state))]
  ELSE Called(m, id, state)

-----------------------------------------------------------------------------
(* Poses as the estimator returns them *)

Keypoint(part, score, x, y) ==
  [part |-> part, score |-> score, position |-> [x |-> x, y |-> y]]

HalfWidth == videoWidth \div 2
HalfHeight == videoHeight \div 2

Nose == Keypoint("nose", 9, HalfWidth, HalfHeight - 100)

PoseScores == {minPoseConfidence - 1, minPoseConfidence}

\* the wrist well inside its corner, on the corner's edge, one pixel outside in
\* x, one pixel outside in y, and on the edge with a confidence below the threshold
LeftWrists ==
  { Keypoint("leftWrist", 9, 100, 50),
    Keypoint("leftWrist", minPartConfidence, HalfWidth, HalfHeight),
    Keypoint("leftWrist", minPartConfidence, HalfWidth + 1, HalfHeight),
    Keypoint("leftWrist", minPartConfidence, HalfWidth, HalfHeight + 1),
    Keypoint("leftWrist", minPartConfidence - 1, HalfWidth, HalfHeight) }

RightWrists ==
  { Keypoint("rightWrist", 9, 500, 50),
    Keypoint("rightWrist", minPartConfidence, HalfWidth, HalfHeight),
    Keypoint("rightWrist", minPartConfidence, HalfWidth - 1, HalfHeight),
    Keypoint("rightWrist", minPartConfidence, HalfWidth, HalfHeight + 1),
    Keypoint("rightWrist", minPartConfidence - 1, HalfWidth, HalfHeight) }

\* a keypoint the estimator left out is an empty stretch of the array
Optional(S) == {<<>>} \cup {<<k>> : k \in S}

Poses ==
  { [score |-> s, keypoints |-> <<Nose>> \o l \o r] :
      s \in PoseScores, l \in Optional(LeftWrists), r \in Optional(RightWrists) }

\* estimatePoses with maxDetections: at most maxPoseDetections poses, in order
PoseLists == UNION { [1..n -> Poses] : n \in 0..maxPoseDetections }

Scenes ==
  {[held |-> FALSE, poses |-> <<>>]} \cup {[held |-> TRUE, poses |-> p] : p \in PoseLists}

-----------------------------------------------------------------------------
(* The trigger evaluation of poseDetectionFrame *)

\* keypoints.find((keypoint) => keypoint.part === part): the index of the
\* first match, 0 for undefined
Find(keypoints, part) ==
  LET hits == {i \in 1..Len(keypoints) : keypoints[i].part = part}
  IN  IF hits = {} THEN 0 ELSE CHOOSE i \in hits : \A j \in hits : i <= j

\* faulty variant: the corner's right edge excluded
LeftWristStrict(wrist, minPart) ==
  /\ wrist.score >= minPart
  /\ wrist.position.x < HalfWidth
  /\ wrist.position.y <= HalfHeight

\* the condition of line 256
LeftWristInCorner(wrist, minPart) ==
  /\ wrist.score >= minPart
  /\ wrist.position.x <= HalfWidth
  /\ wrist.position.y <= HalfHeight

\* the condition of line 262
RightWristInCorner(wrist, minPart) ==
  /\ wrist.score >= minPart
  /\ wrist.position.x >= HalfWidth
  /\ wrist.position.y <= HalfHeight

OnOff(b) == IF b THEN "ON" ELSE "OFF"

\* reading .score of undefined: a TypeError leaves the callback, forEach and
\* the async function
Throw(m) == [m EXCEPT !.threw = TRUE]

\* faulty variant: a pose without one of its wrists is skipped
PoseCallbackGuarded(m, pose, minPose, minPart) ==
  IF pose.score >= minPose
  THEN LET l == Find(pose.keypoints, "leftWrist")
           r == Find(pose.keypoints, "rightWrist")
       IN  IF l = 0 \/ r = 0 THEN m
           ELSE SetLightState(
                  SetLightState(m, LEFT_LIGHT_ID,
                    OnOff(LeftWristInCorner(pose.keypoints[l], minPart))),
                  RIGHT_LIGHT_ID,
                  OnOff(RightWristInCorner(pose.keypoints[r], minPart)))
  ELSE m

\* faulty variant: the right light is decided before the left one
PoseCallbackRightFirst(m, pose, minPose, minPart) ==
  IF pose.score >= minPose
  THEN LET l == Find(pose.keypoints, "leftWrist")
           r == Find(pose.keypoints, "rightWrist")
       IN  IF r = 0 THEN Throw(m)
           ELSE LET m1 == SetLightState(m, RIGHT_LIGHT_ID,
                            OnOff(RightWristInCorner(pose.keypoints[r], minPart)))
                IN  IF l = 0 THEN Throw(m1)
                    ELSE SetLightState(m1, LEFT_LIGHT_ID,
                           OnOff(LeftWristInCorner(pose.keypoints[l], minPart)))
  ELSE m

\* the callback of poses.forEach, lines 252-280 (drawing left out)
PoseCallback(m, pose, minPose, minPart) ==
  IF pose.score >= minPose
  THEN LET l == Find(pose.keypoints, "leftWrist")
           r == Find(pose.keypoints, "rightWrist")
       IN  IF l = 0 THEN Throw(m)
           ELSE LET m1 == SetLightState(m, LEFT_LIGHT_ID,
                            OnOff(LeftWristInCorner(pose.keypoints[l], minPart)))
                IN  IF r = 0 THEN Throw(m1)
                    ELSE SetLightState(m1, RIGHT_LIGHT_ID,
                           OnOff(RightWristInCorner(pose.keypoints[r], minPart)))
  ELSE m

\* faulty variant: only the first pose of the list is looked at
ForEachFirstOnly(m, ps, minPose, minPart) ==
  IF ps = <<>> THEN m ELSE PoseCallback(m, Head(ps), minPose, minPart)

\* poses.forEach(callback): in order, ended by the first exception
RECURSIVE ForEach(_, _, _, _)
ForEach(m, ps, minPose, minPart) ==
  IF ps = <<>> \/ m.threw THEN m
  ELSE ForEach(PoseCallback(m, Head(ps), minPose, minPart), Tail(ps),
               minPose, minPart)

\* faulty variant: the fallback to OFF is missing
NoFallback(m, ps, minPose) == m

\* lines 281-284: no pose reaches the minimum pose confidence
NoPoseFallback(m, ps, minPose) ==
  IF SelectSeq(ps, LAMBDA p : p.score >= minPose) = <<>>
  THEN SetLightState(SetLightState(m, LEFT_LIGHT_ID, "OFF"), RIGHT_LIGHT_ID, "OFF")
  ELSE m

\* lines 252-284
EvaluatePoses(m, ps, minPose, minPart) ==
  LET m1 == ForEach(m, ps, minPose, minPart)
  IN  IF m1.threw THEN m1 ELSE NoPoseFallback(m1, ps, minPose)

\* faulty variant: the next frame is requested twice
RequestTwice(queued) == queued + 2

\* requestAnimationFrame(poseDetectionFrame)
RequestAnimationFrame(queued) == queued + 1

-----------------------------------------------------------------------------
(* The frame loop *)

Init ==
  /\ lightStates = InitialLightStates
  /\ pendingFrames = 0
  /\ inFlight = 0
  /\ frame = "none"
  /\ poses = <<>>
  /\ start = InitialLightStates
  /\ calls = <<>>
  /\ published = <<>>
  /\ completedFrames = 0
  /\ scene \in Scenes
  /\ brokerStates = [i \in Lights |-> Undefined]
  /\ delivery = "none"

\* lines 130-224: an execution begins and runs up to the awaited estimatePoses
\* (guiState.changeTo... is never set, so the reload branches are skipped)
BeginFrame ==
  /\ inFlight' = inFlight + 1
  /\ frame' = "awaiting"
  /\ poses' = <<>>
  /\ start' = lightStates
  /\ calls' = <<>>
  /\ published' = <<>>
  /\ UNCHANGED <<lightStates, completedFrames, scene, brokerStates, delivery>>

\* line 289: the one direct call
DetectPoseInRealTime ==
  /\ frame = "none"
  /\ BeginFrame
  /\ UNCHANGED pendingFrames

\* the browser runs a callback queued by requestAnimationFrame
AnimationFrame ==
  /\ pendingFrames > 0
  /\ pendingFrames' = pendingFrames - 1
  /\ BeginFrame

\* lines 224-235: estimatePoses resolves; poses = poses.concat(all_poses)
EstimatePoses ==
  /\ frame = "awaiting"
  /\ inFlight > 0
  /\ \E all_poses \in (IF scene.held THEN {scene.poses} ELSE PoseLists) :
       poses' = poses \o all_poses
  /\ frame' = "estimated"
  /\ UNCHANGED <<lightStates, pendingFrames, inFlight, start, calls, published,
                 completedFrames, scene, brokerStates, delivery>>

\* lines 238-287: the rest of the execution, run without interruption
ResumeFrame ==
  /\ frame = "estimated"
  /\ LET m == EvaluatePoses(Memory(lightStates), poses,
                            minPoseConfidence, minPartConfidence)
     IN  /\ lightStates' = m.lightStates
         /\ calls' = m.calls
         /\ published' = m.published
         /\ inFlight' = inFlight - 1
         /\ IF m.threw
            THEN /\ frame' = "aborted"
                 /\ UNCHANGED <<pendingFrames, completedFrames>>
            ELSE /\ frame' = "completed"
                 /\ pendingFrames' = RequestAnimationFrame(pendingFrames)
                 /\ completedFrames' =
                      IF completedFrames < MaxCounted
                      THEN completedFrames + 1 ELSE completedFrames
  /\ start' = lightStates
  /\ UNCHANGED <<poses, scene, brokerStates, delivery>>

Next ==
  \/ DetectPoseInRealTime
  \/ AnimationFrame
  \/ EstimatePoses
  \/ ResumeFrame

Spec == Init /\ [][Next]_vars

-----------------------------------------------------------------------------
(* setLightState called in any order, and the network behind publish *)

InitCalls ==
  /\ Init
  /\ scene = [held |-> FALSE, poses |-> <<>>]

\* one call setLightState(id, state); a publish reaches the broker or is lost
CallSetLightState(id, state, arrives) ==
  LET m == SetLightState(Memory(lightStates), id, state)
  IN  /\ lightStates' = m.lightStates
      /\ calls' = m.calls
      /\ published' = m.published
      /\ start' = lightStates
      /\ IF m.published = <<>>
         THEN /\ delivery' = "none"
              /\ UNCHANGED brokerStates
         ELSE IF arrives
         THEN /\ delivery' = "delivered"
              /\ brokerStates' = [brokerStates EXCEPT ![id] = state]
         ELSE /\ delivery' = "lost"
              /\ UNCHANGED brokerStates
      /\ UNCHANGED <<pendingFrames, inFlight, frame, poses, completedFrames, scene>>

NextCalls ==
  \E id \in Lights, state \in {"ON", "OFF"}, arrives \in BOOLEAN :
    CallSetLightState(id, state, arrives)

SpecCalls == InitCalls /\ [][NextCalls]_vars

-----------------------------------------------------------------------------
(* What the claims are stated with *)

LeftTopic == "zigbee2mqtt/0x00158d0002d758f7/set"
RightTopic == "zigbee2mqtt/0x00158d0002d71d98/set"
TopicOf(id) == IF id = LEFT_LIGHT_ID THEN LeftTopic ELSE RightTopic
OnPayload == "{\"state\":\"ON\",\"transition\":0}"
OffPayload == "{\"state\":\"OFF\",\"transition\":0}"
PayloadOf(state) == IF state = "ON" THEN OnPayload ELSE OffPayload

\* the publishes of the latest frame or call addressed to one light
PublishedTo(id) == SelectSeq(published, LAMBDA e : e.topic = TopicOf(id))

Qualifies(pose) == pose.score >= minPoseConfidence
Qualifying(ps) == SelectSeq(ps, Qualifies)

HasPart(pose, part) ==
  \E i \in 1..Len(pose.keypoints) : pose.keypoints[i].part = part
Part(pose, part) ==
  pose.keypoints[CHOOSE i \in 1..Len(pose.keypoints) : pose.keypoints[i].part = part]
Faulty(pose) ==
  Qualifies(pose) /\ ~(HasPart(pose, "leftWrist") /\ HasPart(pose, "rightWrist"))

\* the decisions as the specification words them, on doubled coordinates
LeftDecision(pose) ==
  LET w == Part(pose, "leftWrist")
  IN  IF w.score >= minPartConfidence /\ 2 * w.position.x <= videoWidth
         /\ 2 * w.position.y <= videoHeight
      THEN "ON" ELSE "OFF"
RightDecision(pose) ==
  LET w == Part(pose, "rightWrist")
  IN  IF w.score >= minPartConfidence /\ 2 * w.position.x >= videoWidth
         /\ 2 * w.position.y <= videoHeight
      THEN "ON" ELSE "OFF"

Request(id, state) == [id |-> id, state |-> state]

-----------------------------------------------------------------------------
(* Claims on setLightState, under SpecCalls *)

\* C1: a call setLightState(id, s) publishes (once) if and only if s differs
\* from the state stored for id just before the call, a never-set light
\* counting as different; after the call the stored state is s; a call with
\* the stored state publishes nothing and changes nothing.
C1_EdgeTriggered ==
  calls # <<>> =>
    LET c == calls[1]
    IN  /\ (published # <<>>) <=> (Get(start, c.id) # c.state)
        /\ Len(published) <= 1
        /\ Get(lightStates, c.id) = c.state
        /\ Get(start, c.id) = c.state =>
             /\ lightStates = start
             /\ published = <<>>

\* a repeated request: the light already holds the requested state
C1_Witness ==
  /\ calls # <<>>
  /\ Get(start, calls[1].id) = "ON"
  /\ calls[1].state = "ON"
  /\ published = <<>>

\* C7: when a publish is lost the store still records the attempted state;
\* while store and broker disagree, a request of the stored state publishes
\* nothing and changes nothing (no retry), and a publish only ever happens at
\* a request that differs from the stored state.
C7_NoRetry ==
  /\ [](delivery = "lost" =>
          /\ published # <<>>
          /\ Get(lightStates, calls[1].id) = calls[1].state)
  /\ [][\A id \in Lights :
          (/\ Get(lightStates, id) # brokerStates[id]
           /\ calls' = <<Request(id, Get(lightStates, id))>>)
          => /\ published' = <<>>
             /\ lightStates' = lightStates
             /\ brokerStates' = brokerStates]_vars
  /\ [][published' # <<>> =>
          calls'[1].state # Get(lightStates, calls'[1].id)]_vars

\* a lost publish has left the broker behind the store
C7_Witness ==
  /\ delivery = "lost"
  /\ Get(lightStates, LEFT_LIGHT_ID) = "OFF"
  /\ brokerStates[LEFT_LIGHT_ID] = "ON"

\* C8: a publish goes to the topic zigbee2mqtt/<id>/set of the light the call
\* names, whose stored state it changed, and carries that light's new stored
\* state, ON or OFF, with transition 0; the other light's stored state and
\* the other properties of the store are untouched.
C8_OwnTopic ==
  calls # <<>> =>
    LET c == calls[1]
    IN  /\ \A i \in 1..Len(published) :
             /\ published[i].topic = TopicOf(c.id)
             /\ Get(lightStates, c.id) \in {"ON", "OFF"}
             /\ published[i].payload = PayloadOf(Get(lightStates, c.id))
             /\ Get(lightStates, c.id) # Get(start, c.id)
        /\ \A k \in (DOMAIN lightStates \cup DOMAIN start) \ {c.id} :
             Get(lightStates, k) = Get(start, k)

\* the right light is switched while the left one is ON
C8_Witness ==
  /\ calls # <<>>
  /\ calls[1].id = RIGHT_LIGHT_ID
  /\ published = <<[topic |-> RightTopic, payload |-> OffPayload]>>
  /\ Get(lightStates, LEFT_LIGHT_ID) = "ON"

-----------------------------------------------------------------------------
(* Claims on the frame loop, under Spec *)

\* C2: in a held situation (every frame is given the same pose list), a
\* completed frame that follows a completed frame issues no publish.
C2_HeldIsSilent ==
  (frame = "completed" /\ scene.held /\ completedFrames >= 2) => published = <<>>

\* C3: a completed frame without a pose of score >= the minimum pose
\* confidence leaves both lights stored OFF; a light stored ON before the
\* frame gets exactly one publish, an OFF; a light stored OFF gets none.
C3_NoPoseAllOff ==
  (frame = "completed" /\ Qualifying(poses) = <<>>) =>
    \A id \in Lights :
      /\ Get(lightStates, id) = "OFF"
      /\ Get(start, id) = "ON" =>
           PublishedTo(id) = <<[topic |-> TopicOf(id), payload |-> OffPayload]>>
      /\ Get(start, id) = "OFF" => PublishedTo(id) = <<>>

\* a pose below the threshold holds its left wrist in the corner while the
\* left light is ON and the right light is OFF
C3_Witness ==
  /\ frame = "completed"
  /\ Len(poses) = 1
  /\ ~Qualifies(poses[1])
  /\ HasPart(poses[1], "leftWrist")
  /\ LeftDecision(poses[1]) = "ON"
  /\ Get(start, LEFT_LIGHT_ID) = "ON"
  /\ Get(start, RIGHT_LIGHT_ID) = "OFF"
  /\ Len(published) = 1

\* C4: in a completed frame the k-th pose of score >= the minimum pose
\* confidence requests, for the left light, ON exactly when its leftWrist has
\* confidence >= the minimum part confidence, x <= W/2 and y <= H/2, and for
\* the right light ON exactly when its rightWrist has confidence >= the
\* minimum part confidence, x >= W/2 and y <= H/2; OFF otherwise.
C4_QuadrantRule ==
  frame = "completed" =>
    LET q == Qualifying(poses)
    IN  \A k \in 1..Len(q) :
          /\ 2 * k <= Len(calls)
          /\ calls[2 * k - 1] = Request(LEFT_LIGHT_ID, LeftDecision(q[k]))
          /\ calls[2 * k] = Request(RIGHT_LIGHT_ID, RightDecision(q[k]))

\* one frame holds a left wrist at x = W/2 (ON) and one at x = W/2 + 1 (OFF),
\* both with y = H/2 and the minimum part confidence
C4_Witness ==
  /\ frame = "completed"
  /\ Len(poses) = 2
  /\ Qualifies(poses[1]) /\ Qualifies(poses[2])
  /\ Part(poses[1], "leftWrist") =
       Keypoint("leftWrist", minPartConfidence, videoWidth \div 2, videoHeight \div 2)
  /\ Part(poses[2], "leftWrist") =
       Keypoint("leftWrist", minPartConfidence, videoWidth \div 2 + 1, videoHeight \div 2)
  /\ calls[1] = Request(LEFT_LIGHT_ID, "ON")
  /\ calls[3] = Request(LEFT_LIGHT_ID, "OFF")

\* C5: at most one execution of poseDetectionFrame exists at a time, queued or
\* running: while one runs none is queued, and a completed frame has left
\* exactly one request for the next.
C5_OneFrameInFlight ==
  /\ inFlight <= 1
  /\ pendingFrames + inFlight <= 1
  /\ frame \in {"awaiting", "estimated"} => (inFlight = 1 /\ pendingFrames = 0)
  /\ frame = "completed" => (inFlight = 0 /\ pendingFrames = 1)

\* the loop has gone round: a second frame has completed and requested a third
C5_Witness ==
  /\ frame = "completed"
  /\ completedFrames >= 2
  /\ pendingFrames = 1

\* C6: a frame whose pose list holds a pose of score >= the minimum pose
\* confidence without leftWrist or rightWrist aborts; then nothing is queued
\* or running, and no step follows: no frame, no publish, no change of store.
C6_FatalStop ==
  /\ []((frame \in {"completed", "aborted"}
          /\ \E i \in 1..Len(poses) : Faulty(poses[i]))
        => (frame = "aborted" /\ pendingFrames = 0 /\ inFlight = 0))
  /\ [][frame # "aborted"]_vars

\* the loop died after two good frames, the left light stored ON
C6_Witness ==
  /\ frame = "aborted"
  /\ completedFrames >= 2
  /\ Get(lightStates, LEFT_LIGHT_ID) = "ON"

\* C9: in a completed frame every pose of score >= the minimum pose
\* confidence requests, in list order, first the left then the right light;
\* if there is such a pose, each light ends the frame with the decision of the
\* last of them.
C9_LastPoseWins ==
  (frame = "completed" /\ Qualifying(poses) # <<>>) =>
    LET q == Qualifying(poses)
        last == q[Len(q)]
    IN  /\ Len(calls) = 2 * Len(q)
        /\ \A k \in 1..Len(q) :
             calls[2 * k - 1].id = LEFT_LIGHT_ID /\ calls[2 * k].id = RIGHT_LIGHT_ID
        /\ Get(lightStates, LEFT_LIGHT_ID) = LeftDecision(last)
        /\ Get(lightStates, RIGHT_LIGHT_ID) = RightDecision(last)

\* two people: the first holds the left wrist in the corner, the second does
\* not, and the left light ends OFF
C9_Witness ==
  /\ frame = "completed"
  /\ Len(Qualifying(poses)) = 2
  /\ LeftDecision(poses[1]) = "ON"
  /\ LeftDecision(poses[2]) = "OFF"
  /\ Get(lightStates, LEFT_LIGHT_ID) = "OFF"

\* C10 as claimed: an aborted frame has published nothing and left the stored
\* state of both lights as it was when the frame began.
C10_AbortHasNoEffect ==
  frame = "aborted" =>
    /\ published = <<>>
    /\ \A id \in Lights : Get(lightStates, id) = Get(start, id)

FirstFaulty == CHOOSE i \in 1..Len(poses) :
                 Faulty(poses[i]) /\ \A j \in 1..(i - 1) : ~Faulty(poses[j])

\* C10 amended: up to the abort, each pose of score >= the minimum pose
\* confidence that precedes the faulty one has made both its requests, and the
\* faulty pose has made its left request if it has a leftWrist and never a
\* right request.  So the faulty pose leaves the right light alone, and the
\* frame has no effect when the faulty pose is the first such pose and lacks
\* its leftWrist.
C10_AbortKeepsPrefix ==
  frame = "aborted" =>
    LET f == FirstFaulty
        before == Qualifying(SubSeq(poses, 1, f - 1))
        hasLeft == HasPart(poses[f], "leftWrist")
    IN  /\ Len(calls) = 2 * Len(before) + (IF hasLeft THEN 1 ELSE 0)
        /\ hasLeft => calls[Len(calls)] = Request(LEFT_LIGHT_ID, LeftDecision(poses[f]))
        /\ before = <<>> =>
             /\ PublishedTo(RIGHT_LIGHT_ID) = <<>>
             /\ Get(lightStates, RIGHT_LIGHT_ID) = Get(start, RIGHT_LIGHT_ID)
        /\ (before = <<>> /\ ~hasLeft) =>
             /\ published = <<>>
             /\ lightStates = start

\* the first pose lacks only its rightWrist: the left light was switched ON
\* and published before the abort
C10_Witness ==
  /\ frame = "aborted"
  /\ Faulty(poses[1])
  /\ HasPart(poses[1], "leftWrist")
  /\ published = <<[topic |-> LeftTopic, payload |-> OnPayload]>>
  /\ Get(start, LEFT_LIGHT_ID) = "OFF"
  /\ Get(lightStates, LEFT_LIGHT_ID) = "ON"

====
